---- MODULE Spec2Model ----
(***************************************************************************)
(* Dida365 MCP server: OAuth2 authorization lifecycle and token store.     *)
(*                                                                         *)
(* State machine of src/src/oauth.ts (OAuthManager), src/src/token.ts      *)
(* (token file, TokenManager) and src/src/oauth-server.ts                  *)
(* (OAuthCallbackServer, AuthStateManager).                                *)
(*                                                                         *)
(* Conventions.  A JavaScript value that may be null/undefined is a        *)
(* sequence of length 0 or 1 (Null, Some(x)); an absent string field is    *)
(* "" and an absent number is 0, which are exactly the values the code's   *)
(* truthiness tests (!x) treat like undefined.  Time is Date.now() in      *)
(* milliseconds.  One step of the model is one run-to-completion turn of   *)
(* the Node.js event loop: a handler together with the promise             *)
(* continuations (microtasks) it releases.                                 *)
(***************************************************************************)
EXTENDS Integers, Sequences, FiniteSets, TLC

(***************************************************************************)
(* Bounds of the model                                                     *)
(***************************************************************************)
MaxFlows == 2          \* authorization flows (callback servers) ever started
MaxSmallTicks == 2     \* clock advances of 1 ms
MaxBigTicks == 1       \* clock advances of BigTick ms
MaxEdits == 1          \* edits of the token file from outside the process

(***************************************************************************)
(* Program constants                                                       *)
(***************************************************************************)
BufferSeconds == 300                 \* isTokenExpired default bufferSeconds
AuthTimeoutMs == 5 * 60 * 1000       \* waitForCallback default timeoutMs, isAuthTimeout
SuccessCloseDelayMs == 2000          \* delayed close after the success page

NOT_AUTHORIZED == "not_authorized"
PENDING == "pending"
AUTHORIZED == "authorized"
EXPIRED == "expired"
ERROR == "error"
AuthState == {NOT_AUTHORIZED, PENDING, AUTHORIZED, EXPIRED, ERROR}

(***************************************************************************)
(* The clock.  Date.now() at the first process start is T0; the clock      *)
(* advances by 1 ms or by BigTick ms, so that the instants just before,    *)
(* at and just after a 300 000 ms deadline are all visited.                *)
(***************************************************************************)
T0 == 1000000
BigTick == AuthTimeoutMs - 1
MaxNow == T0 + MaxSmallTicks + MaxBigTicks * BigTick

Null == << >>
Some(x) == << x >>

(***************************************************************************)
(* Configurations: OAuth2Config.clientId / clientSecret and                *)
(* APP_CONFIG.REGION.                                                      *)
(***************************************************************************)
BaseConfig == [clientId |-> "idA", clientSecret |-> "secretA", region |-> "china"]
Configs ==
    { BaseConfig,
      [BaseConfig EXCEPT !.clientId = "idB"],
      [BaseConfig EXCEPT !.clientSecret = "secretB"],
      [BaseConfig EXCEPT !.region = "international"] }

\* utils/hash.ts sha256: a one-way digest; distinct secrets of the model
\* have distinct digests, and a digest is never the secret itself.
sha256(input) ==
    CASE input = "secretA" -> "2bb80d53"
      [] input = "secretB" -> "81e1df2c"
      [] OTHER -> "e3b0c442"

\* a validation context without the region
createValidationContext_noRegion(clientId, clientSecret, region) ==
    [clientId |-> clientId, clientSecretHash |-> sha256(clientSecret), region |-> ""]

\* oauth.ts constructor: createValidationContext(clientId, clientSecret, region)
createValidationContext(clientId, clientSecret, region) ==
    [clientId |-> clientId, clientSecretHash |-> sha256(clientSecret), region |-> region]

(***************************************************************************)
(* Token records (TokenData) and the token file                            *)
(***************************************************************************)
TokenRec(at, exp, rt, cid, hash, reg) ==
    [access_token |-> at, expires_at |-> exp, refresh_token |-> rt,
     clientId |-> cid, clientSecretHash |-> hash, region |-> reg]

EmptyRec == TokenRec("", 0, "", "", "", "")

\* A record as exchangeCodeForToken stamps it for configuration c
StampedRec(at, exp, rt, c) ==
    TokenRec(at, exp, rt, c.clientId, sha256(c.clientSecret), c.region)

\* the properties of a TokenData object
TokenFields ==
    {"access_token", "expires_at", "refresh_token", "clientId",
     "clientSecretHash", "region"}

\* the value of a property that is undefined
Undefined(field) == IF field = "expires_at" THEN 0 ELSE ""

\* a serialization that loses the region
JSON_stringify_lossy(tokenData) ==
    [f \in {g \in TokenFields \ {"region"} : tokenData[g] # Undefined(g)} |-> tokenData[f]]

\* JSON.stringify(tokenData): the members of the JSON object, by name; a
\* property whose value is undefined has no member
JSON_stringify(tokenData) ==
    [f \in {g \in TokenFields : tokenData[g] # Undefined(g)} |-> tokenData[f]]

\* JSON.parse(data) of the text of an object, read as TokenData: a
\* property without a member is undefined
JSON_parse(data) ==
    [f \in TokenFields |-> IF f \in DOMAIN data THEN data[f] ELSE Undefined(f)]

\* The file: missing, unreadable (readFileSync throws), not JSON
\* (JSON.parse throws), the JSON value null, another JSON value that is
\* not an object (number, string, array), or the text of an object.
FileOf(kind, data) == [kind |-> kind, data |-> data]
MissingFile == FileOf("missing", JSON_stringify(EmptyRec))
ObjectFile(data) == FileOf("object", JSON_stringify(data))

MalformedFiles ==
    { FileOf("unreadable", JSON_stringify(EmptyRec)),
      FileOf("invalid_json", JSON_stringify(EmptyRec)),
      FileOf("json_null", JSON_stringify(EmptyRec)),
      FileOf("json_scalar", JSON_stringify(EmptyRec)),
      ObjectFile(StampedRec("", T0 + 900000, "", BaseConfig)),
      ObjectFile(StampedRec("tokOld", 0, "", BaseConfig)) }

\* expiry instants of the records found on disk: long past, and one
\* millisecond after T0 + buffer
DiskExpiries == { T0 - 1, T0 + BufferSeconds * 1000 + 1 }

RecordFiles ==
    { ObjectFile(StampedRec("tokOld", e, rt, BaseConfig)) :
        e \in DiskExpiries, rt \in {"", "refreshOld"} }
    \cup { ObjectFile(TokenRec("tokLegacy", T0 + 900000, "", "", "", "")),
           ObjectFile(TokenRec("tokNoId", T0 + 900000, "", "", sha256("secretA"), "china")),
           ObjectFile(TokenRec("tokNoHash", T0 + 900000, "", "idA", "", "china")) }

InitialFiles == {MissingFile} \cup MalformedFiles \cup RecordFiles

\* the files the authorization flows are started from: none, a record
\* that is valid until T0 + 1, a record that expired long ago
FlowFiles ==
    { MissingFile } \cup
    { ObjectFile(StampedRec("tokOld", e, "", BaseConfig)) : e \in DiskExpiries }

\* what an editor, or another program, may leave in place of the file
EditedFiles ==
    { MissingFile,
      ObjectFile(StampedRec("tokEdit", T0 + 900000, "", BaseConfig)) }

(***************************************************************************)
(* token.ts: the token store                                               *)
(***************************************************************************)
\* body of the try block of loadToken up to the field check: readFileSync,
\* JSON.parse and the first property access; threw = an exception left it
ReadAndParse(file) ==
    IF file.kind \in {"unreadable", "invalid_json", "json_null"}
    THEN [threw |-> TRUE, data |-> EmptyRec]
    ELSE [threw |-> FALSE, data |-> JSON_parse(file.data)]

\* loadToken without its try/catch
loadToken_nocatch(file) ==
    IF file.kind = "missing"
    THEN [raised |-> FALSE, token |-> Null]
    ELSE LET r == ReadAndParse(file) IN
         IF r.threw
         THEN [raised |-> TRUE, token |-> Null]
         ELSE IF r.data.access_token = "" \/ r.data.expires_at = 0
              THEN [raised |-> FALSE, token |-> Null]
              ELSE [raised |-> FALSE, token |-> Some(r.data)]

\* loadToken(): raised = an exception escapes to the caller
loadToken(file) ==
    IF file.kind = "missing"
    THEN [raised |-> FALSE, token |-> Null]
    ELSE LET r == ReadAndParse(file) IN
         IF r.threw
         THEN [raised |-> FALSE, token |-> Null]
         ELSE IF r.data.access_token = "" \/ r.data.expires_at = 0
              THEN [raised |-> FALSE, token |-> Null]
              ELSE [raised |-> FALSE, token |-> Some(r.data)]

\* saveToken(tokenData): JSON.stringify + writeFileSync
saveToken(tokenData) == FileOf("object", JSON_stringify(tokenData))

\* deleteToken(): unlink the file if it exists
deleteToken(file) == MissingFile

\* isTokenExpired comparing with > instead of >=
isTokenExpired_strict(tokenData, t) ==
    LET buffer == BufferSeconds * 1000
    IN  t > tokenData.expires_at - buffer

\* isTokenExpired without the buffer
isTokenExpired_noBuffer(tokenData, t) ==
    t >= tokenData.expires_at

\* isTokenExpired(tokenData, bufferSeconds = 300) at Date.now() = t
isTokenExpired(tokenData, t) ==
    LET buffer == BufferSeconds * 1000
    IN  t >= tokenData.expires_at - buffer

\* validateTokenCredentials that accepts a record without client metadata
validateTokenCredentials_lenient(tokenData, clientId, clientSecret) ==
    IF tokenData.clientId = "" \/ tokenData.clientSecretHash = ""
    THEN TRUE
    ELSE IF tokenData.clientId # clientId
    THEN FALSE
    ELSE IF tokenData.clientSecretHash # sha256(clientSecret)
    THEN FALSE
    ELSE TRUE

\* validateTokenCredentials(tokenData, clientId, clientSecret)
validateTokenCredentials(tokenData, clientId, clientSecret) ==
    IF tokenData.clientId = "" \/ tokenData.clientSecretHash = ""
    THEN FALSE
    ELSE IF tokenData.clientId # clientId
    THEN FALSE
    ELSE IF tokenData.clientSecretHash # sha256(clientSecret)
    THEN FALSE
    ELSE TRUE

(***************************************************************************)
(* oauth-server.ts: AuthStateManager, as a record                          *)
(*   [currentState, authStartTime (0 = undefined), lastError ("" = undef)] *)
(***************************************************************************)
\* a state manager that is born pending
NewStateManager_pending ==
    [currentState |-> PENDING, authStartTime |-> 0, lastError |-> ""]

NewStateManager ==
    [currentState |-> NOT_AUTHORIZED, authStartTime |-> 0, lastError |-> ""]

startAuthFlow(sm, t) ==
    [currentState |-> PENDING, authStartTime |-> t, lastError |-> ""]

setAuthorized(sm) ==
    [currentState |-> AUTHORIZED, authStartTime |-> 0, lastError |-> ""]

setNotAuthorized(sm) ==
    [currentState |-> NOT_AUTHORIZED, authStartTime |-> 0, lastError |-> ""]

\* setExpired that records the message only
setExpired_keepsState(sm) ==
    [sm EXCEPT !.lastError = "Token expired"]

setExpired(sm) ==
    [sm EXCEPT !.currentState = EXPIRED, !.lastError = "Token expired"]

\* setError that records the message only
setError_keepsState(sm, error) ==
    [sm EXCEPT !.lastError = error]

setError(sm, error) ==
    [currentState |-> ERROR, authStartTime |-> 0, lastError |-> error]

\* a state manager without its own timeout check
isAuthTimeout_never(sm, t) == FALSE

isAuthTimeout(sm, t) ==
    IF sm.authStartTime = 0 THEN FALSE
    ELSE t - sm.authStartTime > AuthTimeoutMs

\* getState() changes the manager: the manager as getState() leaves it
getState(sm, t) ==
    IF sm.currentState = PENDING /\ isAuthTimeout(sm, t)
    THEN setError(sm, "Authorization timeout (exceeded 5 minutes)")
    ELSE sm

\* isAuthorized() / isPending(): the value returned (the manager is left
\* as getState(sm, t))
isAuthorized(sm, t) == getState(sm, t).currentState = AUTHORIZED
isPending(sm, t) == getState(sm, t).currentState = PENDING

(***************************************************************************)
(* State                                                                   *)
(***************************************************************************)
VARIABLES
    up,            \* the process runs and OAuthManager is constructed
    config,        \* configuration of the running process
    tokenFile,     \* ~/.dida365-mcp/tokens.json
    tokenData,     \* TokenManager.tokenData
    stateManager,  \* OAuthManager.stateManager
    oauth,         \* OAuthManager: callbackServer, currentState, currentAuthUrl
    servers,       \* the OAuthCallbackServer objects, by flow
    flows,         \* position of each startCallbackServer() invocation
    fresh,         \* number of state values generated so far
    clock,         \* ticks taken: Date.now() = Now
    edits,         \* number of outside edits of the token file
    tools,         \* process.argv, isReadOnlyMode and the tools of the McpServer
    batch,         \* the batchExecute() call in progress
    http,          \* utils/http.ts: the default HttpClient and its TokenManager
    last           \* the last operation and what it returned

vars == << up, config, tokenFile, tokenData, stateManager, oauth,
           servers, flows, fresh, clock, edits, tools, batch, http, last >>

Now == T0 + clock.small + clock.big * BigTick

FlowIds == 1 .. MaxFlows

\* an OAuthCallbackServer whose waitForCallback() was not called
NoServer ==
    [server |-> "unborn", pendingState |-> 0, resolveCallback |-> FALSE,
     rejectCallback |-> FALSE, timeoutHandle |-> 0, closeAt |-> 0,
     promise |-> "none", settled |-> 0]

NoFlow == [pc |-> "none"]

NoOAuth == [callbackServer |-> 0, currentState |-> 0, currentAuthUrl |-> Null]

Result(op, ok, error, value, url, state, sid) ==
    [op |-> op, ok |-> ok, error |-> error, value |-> value, url |-> url,
     state |-> state, sid |-> sid]

NoResult == Result("none", TRUE, "", "", Null, "", 0)

\* the authorization URL: `${authEndpoint}?client_id=..&..&state=..`
AuthUrl(c, state) == [client_id |-> c.clientId, region |-> c.region, state |-> state]

\* before config.ts is loaded: no argument parsed, no tool registered
NoTools ==
    [argv |-> << >>, stage |-> "unloaded", isReadOnlyMode |-> FALSE,
     registered |-> {}]

\* no batchExecute() call was made
NoBatch ==
    [pc |-> "idle", items |-> << >>, maxConcurrent |-> 0, i |-> 0,
     inflight |-> {}, settled |-> << >>, failed |-> {}, results |-> << >>]

\* utils/http.ts was not imported yet
NoHttp == [loaded |-> FALSE, tokenData |-> Null]

InitFrom(files) ==
    /\ up = FALSE
    /\ config = BaseConfig
    /\ tokenFile \in files
    /\ tokenData = Null
    /\ stateManager = NewStateManager
    /\ oauth = NoOAuth
    /\ servers = [s \in FlowIds |-> NoServer]
    /\ flows = [s \in FlowIds |-> NoFlow]
    /\ fresh = 0
    /\ clock = [small |-> 0, big |-> 0]
    /\ edits = 0
    /\ tools = NoTools
    /\ batch = NoBatch
    /\ http = NoHttp
    /\ last = NoResult

(***************************************************************************)
(* TokenManager (token.ts:204-312)                                         *)
(***************************************************************************)
\* constructor(clientId, clientSecret): [tokenData, file] it leaves
TokenManagerNew(file, clientId, clientSecret) ==
    LET loadedToken == loadToken(file).token IN
    IF loadedToken # Null
    THEN IF validateTokenCredentials(loadedToken[1], clientId, clientSecret)
         THEN [tokenData |-> loadedToken, file |-> file]
         ELSE [tokenData |-> Null, file |-> deleteToken(file)]
    ELSE [tokenData |-> Null, file |-> file]

hasToken(td) == td # Null

isTokenValid(td, t) ==
    IF td = Null THEN FALSE ELSE ~ isTokenExpired(td[1], t)

\* The process starts with configuration c: OAuthManager constructor
\* (oauth.ts:36-56).  Configurations other than BaseConfig are tried
\* against the files that hold a record to compare them with.
Start(c) ==
    /\ ~ up
    /\ c = BaseConfig \/ loadToken(tokenFile).token # Null
    /\ LET tm == TokenManagerNew(tokenFile, c.clientId, c.clientSecret) IN
       /\ tokenData' = tm.tokenData
       /\ tokenFile' = tm.file
       /\ stateManager' =
            IF hasToken(tm.tokenData) /\ isTokenValid(tm.tokenData, Now)
            THEN setAuthorized(NewStateManager)
            ELSE NewStateManager
    /\ up' = TRUE
    /\ config' = c
    /\ oauth' = NoOAuth
    /\ last' = Result("start", TRUE, "",
                      IF loadToken(tokenFile).token # Null
                      THEN loadToken(tokenFile).token[1].access_token ELSE "",
                      Null, "", 0)
    /\ UNCHANGED << servers, flows, fresh, clock, edits, tools, batch, http >>

\* the clock advances
Tick(d) ==
    /\ \/ d = 1 /\ clock.small < MaxSmallTicks
               /\ clock' = [clock EXCEPT !.small = @ + 1]
       \/ d = BigTick /\ clock.big < MaxBigTicks
               /\ clock' = [clock EXCEPT !.big = @ + 1]
    /\ last' = Result("tick", TRUE, "", "", Null, "", 0)
    /\ UNCHANGED << up, config, tokenFile, tokenData, stateManager,
                    oauth, servers, flows, fresh, edits, tools, batch, http >>

(***************************************************************************)
(* OAuthCallbackServer (oauth-server.ts:23-285), one record per object:    *)
(*   server        "unborn" | "binding" | "listening" | "closed"           *)
(*   pendingState  expected state (0 = null)                               *)
(*   resolveCallback, rejectCallback   the fields are non-null             *)
(*   timeoutHandle deadline of the armed timeout (0 = null)                *)
(*   closeAt       deadline of the delayed close (0 = none)                *)
(*   promise       the promise waitForCallback returned                    *)
(*   settled       how many times that promise changed from pending        *)
(***************************************************************************)
\* close()
close(sv) ==
    [sv EXCEPT !.timeoutHandle = 0,
               !.server = IF @ \in {"binding", "listening"} THEN "closed" ELSE @,
               !.closeAt = 0,
               !.pendingState = 0,
               !.resolveCallback = FALSE,
               !.rejectCallback = FALSE]

\* a promise that could be settled again
Settle_again(sv, how) ==
    [sv EXCEPT !.promise = how, !.settled = @ + 1]

\* resolve(..) / reject(..) of the promise: only a pending promise changes
Settle(sv, how) ==
    IF sv.promise = "pending"
    THEN [sv EXCEPT !.promise = how, !.settled = @ + 1]
    ELSE sv

\* waitForCallback(state, timeoutMs) at time t: the promise executor
waitForCallback(state, t) ==
    [server |-> "binding", pendingState |-> state, resolveCallback |-> TRUE,
     rejectCallback |-> TRUE, timeoutHandle |-> t + AuthTimeoutMs, closeAt |-> 0,
     promise |-> "pending", settled |-> 0]

Listening == { s \in FlowIds : servers[s].server = "listening" }
Binding == { s \in FlowIds : servers[s].server = "binding" }

(***************************************************************************)
(* OAuthManager (oauth.ts)                                                 *)
(***************************************************************************)
\* generateState(): a value never generated before
generateState == fresh + 1

\* the earlier getAuthorizationUrl had no idempotent path
isValidPendingState_never(sm, oa, t) == FALSE

\* isValidPendingState()
isValidPendingState(sm, oa, t) ==
    isPending(sm, t) /\ oa.currentAuthUrl # Null /\ oa.currentState # 0

\* the finally block of startCallbackServer: servers and fields it leaves
FinallyServers(svs, oa) ==
    IF oa.callbackServer # 0
    THEN [svs EXCEPT ![oa.callbackServer] = close(@)]
    ELSE svs

\* catch + finally of startCallbackServer(s) after its wait was rejected
\* with errorMsg; svs are the servers as the rejecting handler left them
FlowRejected(s, svs, errorMsg) ==
    /\ stateManager' = setError(stateManager, errorMsg)
    /\ servers' = FinallyServers(svs, oauth)
    /\ oauth' = NoOAuth
    /\ flows' = [flows EXCEPT ![s].pc = "done"]

\* a continuation that runs again whenever a handler resolves the promise
AfterHandler_everyResolve(s, svs, errorMsg) ==
    IF servers[s].promise = "pending" /\ svs[s].promise = "rejected"
    THEN FlowRejected(s, svs, errorMsg)
    ELSE IF svs[s].promise = "resolved" /\ svs[s].server # "closed"
    THEN /\ servers' = svs
         /\ flows' = [flows EXCEPT ![s].pc = "exchanging"]
         /\ UNCHANGED << stateManager, oauth >>
    ELSE /\ servers' = svs
         /\ UNCHANGED << stateManager, oauth, flows >>

\* a handler of server s ran and left the servers svs; if it settled the
\* promise (rejecting it with errorMsg, or resolving it), the continuation
\* of startCallbackServer(s) runs
AfterHandler(s, svs, errorMsg) ==
    IF servers[s].promise = "pending" /\ svs[s].promise = "rejected"
    THEN FlowRejected(s, svs, errorMsg)
    ELSE IF servers[s].promise = "pending" /\ svs[s].promise = "resolved"
    THEN /\ servers' = svs
         /\ flows' = [flows EXCEPT ![s].pc = "exchanging"]
         /\ UNCHANGED << stateManager, oauth >>
    ELSE /\ servers' = svs
         /\ UNCHANGED << stateManager, oauth, flows >>

\* getAuthorizationUrl()
GetAuthorizationUrl ==
    /\ up
    /\ LET sm1 == getState(stateManager, Now) IN
       IF isValidPendingState(stateManager, oauth, Now)
       THEN /\ stateManager' = sm1
            /\ last' = Result("getAuthorizationUrl", TRUE, "", "reused",
                              oauth.currentAuthUrl, "", oauth.callbackServer)
            /\ UNCHANGED << oauth, servers, flows, fresh >>
       ELSE /\ fresh < MaxFlows
            /\ Now + AuthTimeoutMs <= MaxNow
            /\ LET cleaned == IF sm1.currentState = PENDING
                              THEN FinallyServers(servers, oauth)
                              ELSE servers
                   state == generateState
                   authUrl == AuthUrl(config, state)
               IN  /\ servers' = [cleaned EXCEPT ![state] = waitForCallback(state, Now)]
                   /\ flows' = [flows EXCEPT ![state] = [pc |-> "waiting"]]
                   /\ oauth' = [callbackServer |-> state, currentState |-> state,
                                currentAuthUrl |-> Some(authUrl)]
                   /\ fresh' = state
                   /\ stateManager' = startAuthFlow(sm1, Now)
                   /\ last' = Result("getAuthorizationUrl", TRUE, "", "new",
                                     Some(authUrl), "", state)
    /\ UNCHANGED << up, config, tokenFile, tokenData, clock, edits, tools, batch, http >>

\* server.listen(port, host) completes for server s: it either holds the
\* port, or the 'error' handler runs (EADDRINUSE).  Servers bind in the
\* order in which listen() was called.
Bind(s) ==
    /\ up
    /\ s \in Binding
    /\ \A t \in Binding : s <= t
    /\ IF Listening = {}
       THEN /\ servers' = [servers EXCEPT ![s].server = "listening"]
            /\ UNCHANGED << stateManager, oauth, flows >>
       ELSE AfterHandler(s, [servers EXCEPT
                ![s] = close(Settle(@, "rejected"))],
                "Port 8521 is already in use")
    /\ last' = Result("bind", Listening = {}, "", "", Null, "", s)
    /\ UNCHANGED << up, config, tokenFile, tokenData, fresh, clock, edits, tools, batch, http >>

ForgedState == MaxFlows + 1
CallbackStates == (0 .. fresh) \cup {ForgedState}

\* a handler that validates the parameters and the state before it looks
\* at the error parameter
handleRequest_stateFirst(sv, code, returnedState, error, t) ==
    LET rejectWith(msg) ==
            [sv |-> close(IF sv.rejectCallback THEN Settle(sv, "rejected") ELSE sv),
             msg |-> msg]
    IN  IF code = "" \/ returnedState = 0
        THEN rejectWith("Missing code or state parameter")
        ELSE IF returnedState # sv.pendingState
        THEN rejectWith("CSRF validation failed: state mismatch")
        ELSE IF error # ""
        THEN rejectWith("Authorization failed: " \o error)
        ELSE [sv |-> [(IF sv.resolveCallback THEN Settle(sv, "resolved") ELSE sv)
                        EXCEPT !.closeAt = IF @ = 0 THEN t + SuccessCloseDelayMs ELSE @],
              msg |-> ""]

\* handleRequest(req, res) of server sv for GET /callback at time t:
\* the server it leaves and the message of the error it rejected with
handleRequest(sv, code, returnedState, error, t) ==
    LET rejectWith(msg) ==
            [sv |-> close(IF sv.rejectCallback THEN Settle(sv, "rejected") ELSE sv),
             msg |-> msg]
    IN  IF error # ""
        THEN rejectWith("Authorization failed: " \o error)
        ELSE IF code = "" \/ returnedState = 0
        THEN rejectWith("Missing code or state parameter")
        ELSE IF returnedState # sv.pendingState
        THEN rejectWith("CSRF validation failed: state mismatch")
        ELSE [sv |-> [(IF sv.resolveCallback THEN Settle(sv, "resolved") ELSE sv)
                        EXCEPT !.closeAt = IF @ = 0 THEN t + SuccessCloseDelayMs ELSE @],
              msg |-> ""]

\* GET /callback?code=..&state=..&error=.. arriving at
\* the server that holds the port ("" and 0 = parameter absent)
Callback(s, code, returnedState, error) ==
    /\ up
    /\ s \in Listening
    /\ LET sv == servers[s]
           h == handleRequest(sv, code, returnedState, error, Now)
       IN  /\ AfterHandler(s, [servers EXCEPT ![s] = h.sv], h.msg)
           /\ last' = Result("callback", h.sv.promise = "resolved" /\ sv.promise = "pending",
                             error,
                             IF code # "" /\ error = "" /\ oauth.currentState # 0
                                /\ returnedState = oauth.currentState
                             THEN "correct" ELSE "other",
                             Null, "", returnedState)
    /\ UNCHANGED << up, config, tokenFile, tokenData, fresh, clock, edits, tools, batch, http >>

\* the timeout of waitForCallback fires
TimerFire(s) ==
    /\ up
    /\ servers[s].timeoutHandle # 0
    /\ Now >= servers[s].timeoutHandle
    /\ AfterHandler(s, [servers EXCEPT
            ![s] = Settle(close(@), "rejected")],
            "Authorization timeout (5 minutes)")
    /\ last' = Result("timer", TRUE, "", "", Null, "", s)
    /\ UNCHANGED << up, config, tokenFile, tokenData, fresh, clock, edits, tools, batch, http >>

\* the delayed close of the success path fires
DelayedClose(s) ==
    /\ up
    /\ servers[s].closeAt # 0
    /\ Now >= servers[s].closeAt
    /\ servers' = [servers EXCEPT ![s] = close(@)]
    /\ last' = Result("delayedClose", TRUE, "", "", Null, "", s)
    /\ UNCHANGED << up, config, tokenFile, tokenData, stateManager, oauth,
                    flows, fresh, clock, edits, tools, batch, http >>

\* lifetimes (expires_in, seconds) the token endpoint may grant
ExpiresIn == { BufferSeconds, 2 * BufferSeconds }

\* the access token the endpoint issues for the code of flow s
IssuedToken(s) == "tok" \o ToString(s)

\* what the fetch of exchangeCodeForToken ends with: a 2xx response, a
\* response that is not ok, or an exception of fetch itself
ExchangeAnswers == {"ok", "http_error", "fetch_failed"}

\* the message of the error exchangeCodeForToken throws
ExchangeError(answer) ==
    IF answer = "http_error" THEN "Token exchange failed: 400" ELSE "fetch failed"

\* a completion whose catch block also clears the token
ExchangeResponse_clearsOnError(s, answer, expires_in) ==
    /\ up
    /\ answer = "ok" \/ expires_in = BufferSeconds
    /\ flows[s].pc = "exchanging"
    /\ IF answer = "ok"
       THEN LET td == TokenRec(IssuedToken(s), Now + expires_in * 1000, "",
                               config.clientId,
                               createValidationContext(config.clientId,
                                   config.clientSecret, config.region).clientSecretHash,
                               createValidationContext(config.clientId,
                                   config.clientSecret, config.region).region)
            IN  /\ tokenData' = Some(td)
                /\ tokenFile' = saveToken(td)
                /\ stateManager' = setAuthorized(stateManager)
       ELSE /\ stateManager' = setError(stateManager, ExchangeError(answer))
            /\ tokenData' = Null
            /\ tokenFile' = deleteToken(tokenFile)
    /\ servers' = FinallyServers(servers, oauth)
    /\ oauth' = NoOAuth
    /\ flows' = [flows EXCEPT ![s].pc = "done"]
    /\ last' = Result("exchange", answer = "ok", IF answer = "ok" THEN "" ELSE answer,
                      IF answer = "ok" THEN IssuedToken(s) ELSE "", Null, "", s)
    /\ UNCHANGED << up, config, fresh, clock, edits, tools, batch, http >>

\* exchangeCodeForToken(code) returns for flow s: the rest of
\* startCallbackServer(s)
ExchangeResponse(s, answer, expires_in) ==
    /\ up
    /\ answer = "ok" \/ expires_in = BufferSeconds
    /\ flows[s].pc = "exchanging"
    /\ IF answer = "ok"
       THEN LET td == TokenRec(IssuedToken(s), Now + expires_in * 1000, "",
                               config.clientId,
                               createValidationContext(config.clientId,
                                   config.clientSecret, config.region).clientSecretHash,
                               createValidationContext(config.clientId,
                                   config.clientSecret, config.region).region)
            IN  /\ tokenData' = Some(td)
                /\ tokenFile' = saveToken(td)
                /\ stateManager' = setAuthorized(stateManager)
       ELSE /\ stateManager' = setError(stateManager, ExchangeError(answer))
            /\ UNCHANGED << tokenData, tokenFile >>
    /\ servers' = FinallyServers(servers, oauth)
    /\ oauth' = NoOAuth
    /\ flows' = [flows EXCEPT ![s].pc = "done"]
    /\ last' = Result("exchange", answer = "ok", IF answer = "ok" THEN "" ELSE answer,
                      IF answer = "ok" THEN IssuedToken(s) ELSE "", Null, "", s)
    /\ UNCHANGED << up, config, fresh, clock, edits, tools, batch, http >>

\* refreshAccessToken that leaves the client metadata out of the new record
refreshAccessToken_unstamped(old, clientId, clientSecret, expires_in, t) ==
    TokenRec("tokRefreshed", t + expires_in * 1000, old.refresh_token, "", "", "")

\* refreshAccessToken(refreshToken, clientId, clientSecret), the endpoint
\* answering 2xx with lifetime expires_in: the new record (also saved)
refreshAccessToken(old, clientId, clientSecret, expires_in, t) ==
    TokenRec("tokRefreshed", t + expires_in * 1000, old.refresh_token,
             clientId, sha256(clientSecret), "")

\* TokenManager.getValidToken() at time t; refreshOk / expires_in are the
\* answer of the token endpoint should a refresh be attempted.
\* Returns [ok, error, value, tokenData, file, refreshed].
getValidToken(td, file, c, t, refreshOk, expires_in) ==
    IF td = Null
    THEN [ok |-> FALSE, error |-> "NoToken", value |-> "",
          tokenData |-> td, file |-> file, refreshed |-> FALSE]
    ELSE IF isTokenExpired(td[1], t)
    THEN IF td[1].refresh_token # ""
         THEN IF refreshOk
              THEN LET n == refreshAccessToken(td[1], c.clientId, c.clientSecret,
                                               expires_in, t)
                   IN  [ok |-> TRUE, error |-> "", value |-> n.access_token,
                        tokenData |-> Some(n), file |-> saveToken(n),
                        refreshed |-> TRUE]
              ELSE [ok |-> FALSE, error |-> "RefreshFailed", value |-> "",
                    tokenData |-> td, file |-> file, refreshed |-> FALSE]
         ELSE [ok |-> FALSE, error |-> "TokenExpired", value |-> "",
               tokenData |-> td, file |-> file, refreshed |-> FALSE]
    ELSE [ok |-> TRUE, error |-> "", value |-> td[1].access_token,
          tokenData |-> td, file |-> file, refreshed |-> FALSE]

\* the answers of the token endpoint that getValidToken() can observe
RefreshAnswers(td, t) ==
    IF td # Null /\ isTokenExpired(td[1], t) /\ td[1].refresh_token # ""
    THEN BOOLEAN \X ExpiresIn
    ELSE { << TRUE, BufferSeconds >> }

\* OAuthManager.getValidAccessToken()
GetValidAccessToken(refreshOk, expires_in) ==
    /\ up
    /\ << refreshOk, expires_in >> \in RefreshAnswers(tokenData, Now)
    /\ LET r == getValidToken(tokenData, tokenFile, config, Now, refreshOk, expires_in)
           sm1 == getState(stateManager, Now)
       IN  /\ tokenData' = r.tokenData
           /\ tokenFile' = r.file
           /\ stateManager' =
                IF r.ok
                THEN IF ~ isAuthorized(stateManager, Now)
                     THEN setAuthorized(sm1) ELSE sm1
                ELSE IF hasToken(r.tokenData)
                     THEN setExpired(stateManager)
                     ELSE setNotAuthorized(stateManager)
           /\ last' = Result("getValidAccessToken", r.ok, r.error, r.value, Null,
                             stateManager.currentState, IF r.refreshed THEN 1 ELSE 0)
    /\ UNCHANGED << up, config, oauth, servers, flows, fresh, clock, edits, tools, batch, http >>

\* getAuthStatus that adds auth_url whenever a URL is stored
getAuthStatus_anyState(sm, oa, td, t) ==
    LET sm1 == getState(sm, t)
        sm2 == IF sm1.currentState = AUTHORIZED
               THEN IF ~ hasToken(td) THEN setNotAuthorized(sm1)
                    ELSE IF ~ isTokenValid(td, t) THEN setExpired(sm1)
                    ELSE sm1
               ELSE sm1
        info == getState(sm2, t)
    IN  [sm |-> info, state |-> info.currentState,
         authorized |-> info.currentState = AUTHORIZED,
         auth_url |-> oa.currentAuthUrl]

\* getAuthStatus that also re-derives Authorized from a valid token
getAuthStatus_upgrades(sm, oa, td, t) ==
    LET sm1 == getState(sm, t)
        sm2 == IF sm1.currentState = AUTHORIZED
               THEN IF ~ hasToken(td) THEN setNotAuthorized(sm1)
                    ELSE IF ~ isTokenValid(td, t) THEN setExpired(sm1)
                    ELSE sm1
               ELSE IF isTokenValid(td, t) THEN setAuthorized(sm1)
               ELSE sm1
        info == getState(sm2, t)
    IN  [sm |-> info, state |-> info.currentState,
         authorized |-> info.currentState = AUTHORIZED,
         auth_url |-> IF info.currentState = PENDING /\ oa.currentAuthUrl # Null
                      THEN oa.currentAuthUrl ELSE Null]

\* getAuthStatus(): [sm, state, authorized, auth_url]
getAuthStatus(sm, oa, td, t) ==
    LET sm1 == getState(sm, t)
        sm2 == IF sm1.currentState = AUTHORIZED
               THEN IF ~ hasToken(td) THEN setNotAuthorized(sm1)
                    ELSE IF ~ isTokenValid(td, t) THEN setExpired(sm1)
                    ELSE sm1
               ELSE sm1
        info == getState(sm2, t)
    IN  [sm |-> info, state |-> info.currentState,
         authorized |-> info.currentState = AUTHORIZED,
         auth_url |-> IF info.currentState = PENDING /\ oa.currentAuthUrl # Null
                      THEN oa.currentAuthUrl ELSE Null]

GetAuthStatus ==
    /\ up
    /\ LET r == getAuthStatus(stateManager, oauth, tokenData, Now) IN
       /\ stateManager' = r.sm
       /\ last' = Result("getAuthStatus", r.authorized, "", "", r.auth_url, r.state, 0)
    /\ UNCHANGED << up, config, tokenFile, tokenData, oauth, servers,
                    flows, fresh, clock, edits, tools, batch, http >>

\* clearToken that deletes the file but keeps this.tokenData
clearToken_keepsData(td, file) == [tokenData |-> td, file |-> deleteToken(file)]

\* TokenManager.clearToken(): [tokenData, file]
clearToken(td, file) == [tokenData |-> Null, file |-> deleteToken(file)]

\* revokeAuthorization()
RevokeAuthorization ==
    /\ up
    /\ tokenData' = clearToken(tokenData, tokenFile).tokenData
    /\ tokenFile' = clearToken(tokenData, tokenFile).file
    /\ stateManager' = setNotAuthorized(stateManager)
    /\ servers' = FinallyServers(servers, oauth)
    /\ oauth' = NoOAuth
    /\ last' = Result("revokeAuthorization", TRUE, "", "", Null,
                      stateManager.currentState, oauth.callbackServer)
    /\ UNCHANGED << up, config, flows, fresh, clock, edits, tools, batch, http >>

\* the token file is deleted or replaced from outside the process
ExternalEdit(f) ==
    /\ up
    /\ edits < MaxEdits
    /\ f # tokenFile
    /\ tokenFile' = f
    /\ edits' = edits + 1
    /\ last' = Result("edit", TRUE, "", "", Null, "", 0)
    /\ UNCHANGED << up, config, tokenData, stateManager, oauth, servers,
                    flows, fresh, clock, tools, batch, http >>

Init == InitFrom(FlowFiles)

Next ==
    \/ \E c \in Configs : Start(c)
    \/ \E d \in {1, BigTick} : Tick(d)
    \/ GetAuthorizationUrl
    \/ \E s \in FlowIds : Bind(s)
    \/ \E s \in FlowIds, code \in {"", "code"}, st \in CallbackStates,
          error \in {"", "access_denied"} : Callback(s, code, st, error)
    \/ \E s \in FlowIds : TimerFire(s)
    \/ \E s \in FlowIds : DelayedClose(s)
    \/ \E s \in FlowIds, a \in ExchangeAnswers, e \in ExpiresIn : ExchangeResponse(s, a, e)
    \/ \E ok \in BOOLEAN, e \in ExpiresIn : GetValidAccessToken(ok, e)
    \/ GetAuthStatus
    \/ RevokeAuthorization

\* The authorization lifecycle
Spec == Init /\ [][Next]_vars

\* The token store and the Token Manager alone: every file content, and
\* edits of the file from outside
TokenInit == InitFrom(InitialFiles)

TokenNext ==
    \/ \E c \in Configs : Start(c)
    \/ \E d \in {1, BigTick} : Tick(d)
    \/ \E ok \in BOOLEAN, e \in ExpiresIn : GetValidAccessToken(ok, e)
    \/ GetAuthStatus
    \/ RevokeAuthorization
    \/ \E f \in EditedFiles : ExternalEdit(f)

TokenSpec == TokenInit /\ [][TokenNext]_vars

\* TokenManager.setToken(tokenData) (token.ts:269-272): keeps the record
\* and saves it
SetToken(rec) ==
    /\ tokenData' = Some(rec)
    /\ tokenFile' = saveToken(rec)
    /\ last' = Result("setToken", TRUE, "", rec.access_token, Null, last.op, 0)
    /\ UNCHANGED << up, config, stateManager, oauth, servers, flows, fresh,
                    clock, edits, tools, batch, http >>

\* loadToken() is called; last.url is what it returned, last.state the
\* operation before it
LoadToken ==
    /\ last' = Result("loadToken", ~ loadToken(tokenFile).raised, "", "",
                      loadToken(tokenFile).token, last.op, 0)
    /\ UNCHANGED << up, config, tokenFile, tokenData, stateManager, oauth,
                    servers, flows, fresh, clock, edits, tools, batch, http >>

\* deleteToken() is called
DeleteToken ==
    /\ tokenFile' = deleteToken(tokenFile)
    /\ last' = Result("deleteToken", TRUE, "", "", Null, last.op, 0)
    /\ UNCHANGED << up, config, tokenData, stateManager, oauth, servers,
                    flows, fresh, clock, edits, tools, batch, http >>

\* the records handed to the store: every field present or absent
StoreRecords ==
    { TokenRec(at, exp, rt, cid, hash, reg) :
        at \in {"", "tokA"}, exp \in {0, T0 - 1, T0 + 900000},
        rt \in {"", "refreshOld"}, cid \in {"", "idA"},
        hash \in {"", sha256("secretA")}, reg \in {"", "china"} }

\* The token store alone: saveToken, loadToken, deleteToken
StoreInit == InitFrom(InitialFiles)

StoreNext ==
    \/ \E rec \in StoreRecords : SetToken(rec)
    \/ LoadToken
    \/ DeleteToken

StoreSpec == StoreInit /\ [][StoreNext]_vars

\* The authorization lifecycle of a process started without a token file,
\* with what the event loop guarantees: time passes, a due timer fires, a
\* listen() call completes
FairInit == InitFrom({MissingFile})

FairSpec ==
    /\ FairInit
    /\ [][Next]_vars
    /\ WF_vars(Tick(1))
    /\ WF_vars(Tick(BigTick))
    /\ \A s \in FlowIds : WF_vars(TimerFire(s))
    /\ \A s \in FlowIds : WF_vars(DelayedClose(s))
    /\ \A s \in FlowIds : WF_vars(Bind(s))

(***************************************************************************)
(* Tool registration: config.ts parseCommandLineArgs / isReadOnly, the     *)
(* entry point and tools/index.ts registerAllTools                         *)
(***************************************************************************)
ReadTools ==
    {"get_auth_url", "check_auth_status", "revoke_auth", "list_projects",
     "get_project", "get_project_data", "get_task"}

WriteTools ==
    {"create_project", "update_project", "delete_project", "create_task",
     "update_task", "delete_task", "complete_task"}

\* the names a client may ask for
ToolNames == ReadTools \cup WriteTools \cup {"list_tasks"}

\* process.argv.slice(2): up to MaxArgs arguments
MaxArgs == 2
ArgWords == {"--readonly", "-r", "-R", "--read-only"}
Argvs == UNION { [1 .. n -> ArgWords] : n \in 0 .. MaxArgs }

includes(args, word) == \E k \in 1 .. Len(args) : args[k] = word

\* parseCommandLineArgs(): the value of isReadOnlyMode it leaves
parseCommandLineArgs(args) ==
    IF includes(args, "--readonly") \/ includes(args, "-r") THEN TRUE ELSE FALSE

\* registerAllTools that registers every tool whatever the mode
registerAllTools_ignoresMode(readOnly) == ReadTools \cup WriteTools

\* registerAllTools(server, context, readOnly): the tools it registers
registerAllTools(readOnly) ==
    {"get_auth_url", "check_auth_status", "revoke_auth"}
    \cup {"list_projects", "get_project", "get_project_data"}
    \cup (IF ~ readOnly
          THEN {"create_project", "update_project", "delete_project"} ELSE {})
    \cup {"get_task"}
    \cup (IF ~ readOnly
          THEN {"create_task", "update_task", "delete_task", "complete_task"}
          ELSE {})

\* config.ts is loaded: parseCommandLineArgs() runs
ParseCommandLineArgs ==
    /\ tools.stage = "unloaded"
    /\ tools' = [tools EXCEPT !.stage = "parsed",
                              !.isReadOnlyMode = parseCommandLineArgs(tools.argv)]
    /\ last' = Result("parseCommandLineArgs", TRUE, "", "", Null, "", 0)
    /\ UNCHANGED << up, config, tokenFile, tokenData, stateManager, oauth,
                    servers, flows, fresh, clock, edits, batch, http >>

\* the entry point after the OAuthManager is constructed:
\* registerAllTools(server, { oauthManager }, isReadOnly())
RegisterAllTools ==
    /\ up
    /\ tools.stage = "parsed"
    /\ tools' = [tools EXCEPT !.stage = "registered",
                              !.registered = registerAllTools(tools.isReadOnlyMode)]
    /\ last' = Result("registerAllTools", TRUE, "", "", Null, "", 0)
    /\ UNCHANGED << up, config, tokenFile, tokenData, stateManager, oauth,
                    servers, flows, fresh, clock, edits, batch, http >>

\* a client calls the tool `name`: its handler runs if the tool is
\* registered, otherwise the server answers with an error
CallTool(name) ==
    /\ tools.stage = "registered"
    /\ last' = Result("callTool", name \in tools.registered,
                      IF name \in tools.registered THEN "" ELSE "Tool not found",
                      name, Null, "", 0)
    /\ UNCHANGED << up, config, tokenFile, tokenData, stateManager, oauth,
                    servers, flows, fresh, clock, edits, tools, batch, http >>

ToolInit ==
    /\ up = FALSE
    /\ config = BaseConfig
    /\ tokenFile \in FlowFiles
    /\ tokenData = Null
    /\ stateManager = NewStateManager
    /\ oauth = NoOAuth
    /\ servers = [s \in FlowIds |-> NoServer]
    /\ flows = [s \in FlowIds |-> NoFlow]
    /\ fresh = 0
    /\ clock = [small |-> 0, big |-> 0]
    /\ edits = 0
    /\ tools \in { [NoTools EXCEPT !.argv = a] : a \in Argvs }
    /\ batch = NoBatch
    /\ http = NoHttp
    /\ last = NoResult

ToolNext ==
    \/ ParseCommandLineArgs
    \/ \E c \in Configs : Start(c)
    \/ RegisterAllTools
    \/ \E name \in ToolNames : CallTool(name)

\* Start-up of the server and the tools a client can call
ToolSpec == ToolInit /\ [][ToolNext]_vars

(***************************************************************************)
(* utils/batch.ts batchExecute.  Items are numbered from 1; result.index   *)
(* is the 0-based position.                                                *)
(*   pc        "idle" | "running" | "returned"                             *)
(*   i         the loop variable: items before position i + 1 are done     *)
(*   inflight  positions whose executor promise is pending                 *)
(*   settled   results of the current chunk, in the order of completion    *)
(*   failed    positions whose executor rejected                           *)
(***************************************************************************)
MaxItems == 6
MAX_CONCURRENT == 5

\* the item at position k of a call
ItemAt(k) == "item" \o ToString(k)
ItemLists == { [k \in 1 .. n |-> ItemAt(k)] : n \in 0 .. MaxItems }

\* the limits batchExecute is called with: the default and a smaller one
MaxConcurrents == {2, MAX_CONCURRENT}

Min(a, b) == IF a < b THEN a ELSE b

\* a batch that holds all the remaining items
Slice_all(items, i, maxConcurrent) == i + 1 .. Len(items)

\* items.slice(i, i + maxConcurrent): the positions of the chunk
Slice(items, i, maxConcurrent) == i + 1 .. Min(i + maxConcurrent, Len(items))

\* the value a batch promise fulfils with
BatchResultOf(items, k, ok) ==
    IF ok
    THEN [index |-> k - 1, success |-> TRUE, result |-> "done:" \o items[k],
          error |-> "", input |-> items[k]]
    ELSE [index |-> k - 1, success |-> FALSE, result |-> "",
          error |-> "failed:" \o items[k], input |-> items[k]]

\* results collected in the order the promises settled
PromiseAll_completionOrder(settled, first, n) == settled

\* Promise.all(batchPromises): the results in the order of the promises
\* (positions first + 1 .. first + n), whatever order they settled in
PromiseAll(settled, first, n) ==
    [j \in 1 .. n |->
        (CHOOSE r \in { settled[m] : m \in 1 .. Len(settled) } : r.index = first + j - 1)]

\* the loop of batchExecute at i: the chunk is mapped (every executor of the
\* chunk is called), or the loop ends and the results are returned
LoopAt(b, i) ==
    IF i < Len(b.items)
    THEN [b EXCEPT !.i = i, !.inflight = Slice(b.items, i, b.maxConcurrent),
                   !.settled = << >>]
    ELSE [b EXCEPT !.i = i, !.inflight = {}, !.settled = << >>,
                   !.pc = "returned"]

\* batchExecute(items, executor, maxConcurrent) is called
BatchExecute(items, maxConcurrent) ==
    /\ batch.pc = "idle"
    /\ batch' = LoopAt([NoBatch EXCEPT !.pc = "running", !.items = items,
                                       !.maxConcurrent = maxConcurrent], 0)
    /\ last' = Result("batchExecute", TRUE, "", "", Null, "", Len(items))
    /\ UNCHANGED << up, config, tokenFile, tokenData, stateManager, oauth,
                    servers, flows, fresh, clock, edits, tools, http >>

\* the executor call of position k settles (ok = it fulfilled); when it is
\* the last of its chunk, Promise.all fulfils and the loop continues
ExecutorSettles(k, ok) ==
    /\ batch.pc = "running"
    /\ k \in batch.inflight
    /\ LET b1 == [batch EXCEPT
                    !.inflight = @ \ {k},
                    !.settled = Append(@, BatchResultOf(batch.items, k, ok)),
                    !.failed = IF ok THEN @ ELSE @ \cup {k}]
       IN  batch' =
             IF b1.inflight = {}
             THEN LoopAt([b1 EXCEPT !.results =
                             @ \o PromiseAll(b1.settled, b1.i, Len(b1.settled))],
                         b1.i + b1.maxConcurrent)
             ELSE b1
    /\ last' = Result("executorSettles", ok, "", "", Null, "", k)
    /\ UNCHANGED << up, config, tokenFile, tokenData, stateManager, oauth,
                    servers, flows, fresh, clock, edits, tools, http >>

BatchInit == InitFrom({MissingFile})

BatchNext ==
    \/ \E items \in ItemLists, m \in MaxConcurrents : BatchExecute(items, m)
    \/ \E k \in 1 .. MaxItems, ok \in BOOLEAN : ExecutorSettles(k, ok)

\* One batchExecute() call and its executors
BatchSpec == BatchInit /\ [][BatchNext]_vars

(***************************************************************************)
(* utils/http.ts (get-project.ts:176-409): the default HttpClient and the  *)
(* TokenManager it is constructed with when the module is imported         *)
(***************************************************************************)
\* the status of the response to a request that was sent
ResponseStatuses == {200, 401}

\* const defaultTokenManager = new TokenManager(clientId, clientSecret);
\* const defaultHttpClient = new HttpClient({ tokenManager }): the import
\* of utils/http.ts, which precedes the body of index.ts
LoadHttpClient ==
    /\ ~ up
    /\ ~ http.loaded
    /\ LET tm == TokenManagerNew(tokenFile, config.clientId, config.clientSecret) IN
       /\ http' = [loaded |-> TRUE, tokenData |-> tm.tokenData]
       /\ tokenFile' = tm.file
    /\ last' = Result("loadHttpClient", TRUE, "", "", Null, "", 0)
    /\ UNCHANGED << up, config, tokenData, stateManager, oauth, servers,
                    flows, fresh, clock, edits, tools, batch >>

\* a request through the default HttpClient at time t, the API answering
\* with status should the request be sent: the request interceptor, and
\* the response interceptor.  Returns [ok, error, bearer, tokenData, file].
request(td, file, c, t, refreshOk, expires_in, status) ==
    LET r == getValidToken(td, file, c, t, refreshOk, expires_in) IN
    IF ~ r.ok
    THEN [ok |-> FALSE, error |-> "Authentication failed", bearer |-> "",
          tokenData |-> r.tokenData, file |-> r.file]
    ELSE IF status = 401
    THEN [ok |-> FALSE, error |-> "Authentication failed. Please re-authorize.",
          bearer |-> r.value,
          tokenData |-> clearToken(r.tokenData, r.file).tokenData,
          file |-> clearToken(r.tokenData, r.file).file]
    ELSE [ok |-> TRUE, error |-> "", bearer |-> r.value,
          tokenData |-> r.tokenData, file |-> r.file]

\* a tool calls the API layer: httpClient.get / post / delete
HttpRequest(refreshOk, expires_in, status) ==
    /\ up
    /\ http.loaded
    /\ << refreshOk, expires_in >> \in RefreshAnswers(http.tokenData, Now)
    /\ LET r == request(http.tokenData, tokenFile, config, Now,
                        refreshOk, expires_in, status)
       IN  /\ http' = [http EXCEPT !.tokenData = r.tokenData]
           /\ tokenFile' = r.file
           /\ last' = Result("httpRequest", r.ok, r.error, r.bearer, Null, "", status)
    /\ UNCHANGED << up, config, tokenData, stateManager, oauth, servers,
                    flows, fresh, clock, edits, tools, batch >>

ClientInit == InitFrom(FlowFiles)

ClientNext ==
    \/ LoadHttpClient
    \/ http.loaded /\ Start(BaseConfig)
    \/ \E d \in {1, BigTick} : Tick(d)
    \/ GetAuthorizationUrl
    \/ \E s \in FlowIds : Bind(s)
    \/ \E s \in FlowIds, code \in {"", "code"}, st \in CallbackStates,
          error \in {"", "access_denied"} : Callback(s, code, st, error)
    \/ \E s \in FlowIds, a \in ExchangeAnswers, e \in ExpiresIn : ExchangeResponse(s, a, e)
    \/ \E ok \in BOOLEAN, e \in ExpiresIn : GetValidAccessToken(ok, e)
    \/ \E ok \in BOOLEAN, e \in ExpiresIn, status \in ResponseStatuses :
            HttpRequest(ok, e, status)

\* The tools' requests through the default HttpClient, next to the
\* authorization lifecycle
ClientSpec == ClientInit /\ [][ClientNext]_vars

TypeOK ==
    /\ up \in BOOLEAN
    /\ stateManager.currentState \in AuthState
    /\ \A s \in FlowIds : servers[s].settled \in 0 .. 1

(***************************************************************************)
(* Properties                                                              *)
(***************************************************************************)
Context == createValidationContext(config.clientId, config.clientSecret, config.region)

\* the validation context a record was persisted under
StampOf(rec) ==
    [clientId |-> rec.clientId, clientSecretHash |-> rec.clientSecretHash,
     region |-> rec.region]

FullyStamped(rec) ==
    rec.clientId # "" /\ rec.clientSecretHash # "" /\ rec.region # ""

Active == { s \in FlowIds : servers[s].server \in {"binding", "listening"} }

\* C1: a record persisted under a context that differs from the current
\* one in clientId, secret fingerprint or region is never served:
\* getValidAccessToken() returns an access token only of a record whose
\* stamp equals the current validation context.
C1_BindingOriginal ==
    (last.op = "getValidAccessToken" /\ last.ok /\ last.sid = 0
        /\ tokenData # Null /\ FullyStamped(tokenData[1]))
    => StampOf(tokenData[1]) = Context

\* C2: a callback is accepted (resolves the pending wait, which starts the
\* token exchange) only if its state is the one of the currently
\* outstanding authorization URL.
C2_CsrfOriginal ==
    (last.op = "callback" /\ last.ok)
    => (oauth.currentState # 0 /\ last.sid = oauth.currentState)

\* C3: at most one Callback Server is listening on, or trying to bind,
\* the fixed port.
C3_SingleServerOriginal == Cardinality(Active) <= 1

\* C4: a getAuthorizationUrl() call made while the state is Pending and
\* unexpired returns the URL the flow-starting call returned (the URL of
\* the latest generated state), starts no server and generates no state.
C4_IdempotentUrl ==
    [][ (last'.op = "getAuthorizationUrl"
            /\ stateManager.currentState = PENDING
            /\ ~ isAuthTimeout(stateManager, Now))
        => /\ last'.url = Some(AuthUrl(config, fresh))
           /\ servers' = servers
           /\ fresh' = fresh
           /\ oauth' = oauth
           /\ stateManager'.currentState = PENDING ]_vars

C4_Witness ==
    /\ last.op = "getAuthorizationUrl"
    /\ last.value = "reused"
    /\ last.url = Some(AuthUrl(config, fresh))
    /\ Cardinality(Active) = 1

\* C5: in the state revokeAuthorization() returns in, hasToken() is false,
\* the token file is gone and getAuthStatus() reports NotAuthorized,
\* whatever the state was before.
C5_Revoked ==
    last.op = "revokeAuthorization"
    => /\ ~ hasToken(tokenData)
       /\ tokenFile = MissingFile
       /\ getAuthStatus(stateManager, oauth, tokenData, Now).state = NOT_AUTHORIZED
       /\ ~ getAuthStatus(stateManager, oauth, tokenData, Now).authorized

\* revoked while a flow was pending and its Callback Server active
C5_Witness ==
    /\ last.op = "revokeAuthorization"
    /\ last.state = PENDING
    /\ last.sid # 0
    /\ servers[last.sid].server = "closed"

\* C6: after getAuthorizationUrl() the status is Pending with an authUrl;
\* a callback that carries a code and the state of the outstanding URL
\* hands the code to that flow; and when the token endpoint then answers
\* successfully (with a lifetime beyond the buffer) the state is Authorized
\* and getValidAccessToken() returns the issued token.
C6_ScenarioBOriginal ==
    /\ last.op = "getAuthorizationUrl"
        => /\ getAuthStatus(stateManager, oauth, tokenData, Now).state = PENDING
           /\ getAuthStatus(stateManager, oauth, tokenData, Now).auth_url # Null
    /\ (last.op = "callback" /\ last.value = "correct")
        => flows[last.sid].pc \in {"exchanging", "done"}
    /\ (last.op = "exchange" /\ last.ok
            /\ Now < tokenData[1].expires_at - BufferSeconds * 1000)
        => /\ stateManager.currentState = AUTHORIZED
           /\ getValidToken(tokenData, tokenFile, config, Now, TRUE, BufferSeconds).ok
           /\ getValidToken(tokenData, tokenFile, config, Now, TRUE, BufferSeconds).value
                = last.value

\* C7: for a record that is on disk, held by the manager and matches the
\* credentials, getValidAccessToken() fails with TokenExpired whenever
\* now >= expiresAt - 300 s and returns the record's access token otherwise.
C7_ExpiryOriginal ==
    [][ (last'.op = "getValidAccessToken" /\ tokenData # Null
            /\ loadToken(tokenFile).token = tokenData
            /\ validateTokenCredentials(tokenData[1], config.clientId, config.clientSecret))
        => IF Now >= tokenData[1].expires_at - BufferSeconds * 1000
           THEN ~ last'.ok /\ last'.error = "TokenExpired"
           ELSE last'.ok /\ last'.value = tokenData[1].access_token ]_vars

\* C7 (amended): for the record the Token Manager holds,
\* getValidAccessToken() returns its access token whenever
\* now < expiresAt - 300 s; whenever now >= expiresAt - 300 s (boundary
\* included) it fails with TokenExpired if the record carries no refresh
\* token, and otherwise answers with the outcome of a refresh-token grant.
C7_ExpiryBuffer ==
    [][ (last'.op = "getValidAccessToken" /\ tokenData # Null)
        => IF Now >= tokenData[1].expires_at - BufferSeconds * 1000
           THEN /\ tokenData[1].refresh_token = ""
                    => (~ last'.ok /\ last'.error = "TokenExpired")
                /\ tokenData[1].refresh_token # ""
                    => (last'.sid = 1 \/ last'.error = "RefreshFailed")
           ELSE last'.ok /\ last'.value = tokenData[1].access_token ]_vars

\* expiresAt = now + buffer - 1: TokenExpired
C7_Witness ==
    /\ last.op = "getValidAccessToken"
    /\ last.error = "TokenExpired"
    /\ tokenData # Null
    /\ tokenData[1].expires_at = Now + BufferSeconds * 1000 - 1

\* the file contents the claim lists
Malformed(f) ==
    \/ f.kind \in {"unreadable", "invalid_json", "json_null", "json_scalar"}
    \/ f.kind = "object" /\ (JSON_parse(f.data).access_token = ""
                                \/ JSON_parse(f.data).expires_at = 0)

\* C8: loadToken() never raises and returns null for a missing,
\* unreadable or malformed file; a process started on such a file is in
\* the state of a process started without a file, and its operations
\* answer as without a token.
C8_CorruptionTolerance ==
    /\ ~ loadToken(tokenFile).raised
    /\ (Malformed(tokenFile) \/ tokenFile = MissingFile)
        => loadToken(tokenFile).token = Null
    /\ (last.op = "start" /\ Malformed(tokenFile))
        => /\ tokenData = Null
           /\ stateManager = NewStateManager
           /\ oauth = NoOAuth
           /\ getValidToken(tokenData, tokenFile, config, Now, TRUE, BufferSeconds).error
                = "NoToken"
           /\ getAuthStatus(stateManager, oauth, tokenData, Now).state = NOT_AUTHORIZED

C8_Witness ==
    /\ last.op = "start"
    /\ tokenFile.kind = "invalid_json"
    /\ tokenData = Null

\* C9: what getAuthStatus() and getValidAccessToken() answer reflects the
\* token file as it is at the call: Authorized is reported, and a token is
\* returned, only if the file holds that record.
C9_FreshReadsOriginal ==
    /\ (last.op = "getAuthStatus" /\ last.state = AUTHORIZED)
        => loadToken(tokenFile).token # Null
    /\ (last.op = "getValidAccessToken" /\ last.ok)
        => /\ loadToken(tokenFile).token # Null
           /\ loadToken(tokenFile).token[1].access_token = last.value

\* C10: a wait never settles twice, and a listener that is closed (its
\* timeout cancelled, its callbacks dropped) belongs to a settled wait.
C10_SettleOriginal ==
    \A s \in FlowIds :
        /\ servers[s].settled <= 1
        /\ servers[s].server = "closed" => servers[s].promise # "pending"

\* C10 (amended): a wait settles at most once; it is resolved only by a
\* callback carrying its state, and rejected only by a callback, a bind
\* error or its timeout, the listener being closed in the same turn; a
\* listener is closed with its wait unsettled only when the OAuth Manager
\* closes its current callbackServer; and every listener is eventually
\* closed.
C10_SettleOnce ==
    /\ [][ \A s \in FlowIds :
            /\ servers'[s].settled <= 1
            /\ (servers[s].promise = "pending" /\ servers'[s].promise = "resolved")
                => /\ last'.op = "callback"
                   /\ last'.sid = servers[s].pendingState
                   /\ servers[s].server = "listening"
            /\ (servers[s].promise = "pending" /\ servers'[s].promise = "rejected")
                => /\ last'.op \in {"callback", "bind", "timer"}
                   /\ servers'[s].server = "closed"
            /\ (servers[s].promise = "resolved" /\ up')
                => servers'[s].promise = "resolved"
            /\ (servers[s].promise = "rejected" /\ up')
                => servers'[s].promise = "rejected"
            /\ (servers[s].server \in {"binding", "listening"}
                    /\ servers'[s].server = "closed"
                    /\ servers'[s].promise = "pending")
                => oauth.callbackServer = s ]_vars
    /\ \A s \in FlowIds :
            (servers[s].server \in {"binding", "listening"})
                ~> (servers[s].server = "closed")

\* a wait rejected by its timeout, the listener closed
C10_Witness ==
    /\ last.op = "timer"
    /\ servers[last.sid].promise = "rejected"
    /\ servers[last.sid].settled = 1
    /\ servers[last.sid].server = "closed"

\* C11: when the background completion of a flow ends, by success or by
\* failure, the Callback Server of that flow is closed (no listener is left
\* running) and the pending state value and authorization URL are cleared.
C11_CleanupOriginal ==
    [][ \A s \in FlowIds :
            (flows[s].pc \in {"waiting", "exchanging"} /\ flows'[s].pc = "done")
            => /\ servers'[s].server = "closed"
               /\ oauth'.callbackServer = 0
               /\ oauth'.currentState = 0
               /\ oauth'.currentAuthUrl = Null ]_vars

\* C12: when the background chain of a flow fails (its wait is rejected
\* because of a provider error parameter, missing code/state, a state
\* mismatch, the port being in use or the callback timeout, or the token
\* exchange throws on a non-2xx response or a transport failure), the
\* authorization state is Error in the same turn and lastError is the
\* message of that failure.
C12_ErrorOnFailure ==
    [][ \A s \in FlowIds :
            (flows[s].pc \in {"waiting", "exchanging"} /\ flows'[s].pc = "done"
                /\ ~ (last'.op = "exchange" /\ last'.ok))
            => /\ stateManager'.currentState = ERROR
               /\ stateManager'.authStartTime = 0
               /\ LET msg == stateManager'.lastError IN
                  CASE last'.op = "timer" -> msg = "Authorization timeout (5 minutes)"
                    [] last'.op = "bind" -> msg = "Port 8521 is already in use"
                    [] last'.op = "exchange" ->
                          /\ last'.error = "http_error" => msg = "Token exchange failed: 400"
                          /\ last'.error = "fetch_failed" => msg = "fetch failed"
                          /\ last'.error \in {"http_error", "fetch_failed"}
                    [] last'.op = "callback" ->
                          IF last'.error # ""
                          THEN msg = "Authorization failed: " \o last'.error
                          ELSE IF last'.sid # 0 /\ last'.sid # servers[s].pendingState
                          THEN msg \in {"CSRF validation failed: state mismatch",
                                        "Missing code or state parameter"}
                          ELSE msg = "Missing code or state parameter"
                    [] OTHER -> FALSE ]_vars

\* the token exchange failed in transport
C12_Witness ==
    /\ last.op = "exchange"
    /\ last.error = "fetch_failed"
    /\ flows[last.sid].pc = "done"
    /\ stateManager.currentState = ERROR
    /\ stateManager.lastError = "fetch failed"

\* C13: with no token stored and a flow pending (state Pending, its
\* callback awaited), when a callback with error=access_denied arrives the
\* state becomes Error, no token is stored and getValidAccessToken() still
\* fails with NoToken.
C13_AccessDeniedOriginal ==
    [][ (last'.op = "callback" /\ last'.error = "access_denied"
            /\ tokenData = Null /\ loadToken(tokenFile).token = Null
            /\ stateManager.currentState = PENDING
            /\ ~ isAuthTimeout(stateManager, Now)
            /\ oauth.currentState # 0
            /\ flows[oauth.currentState].pc = "waiting")
        => /\ stateManager'.currentState = ERROR
           /\ tokenData' = Null
           /\ loadToken(tokenFile').token = Null
           /\ getValidToken(tokenData', tokenFile', config, Now, TRUE, BufferSeconds).error
                = "NoToken" ]_vars

\* C14: a Token Manager constructed on a file whose record does not match
\* the validation context (clientId, secret fingerprint, region) deletes
\* the file and has no token; a matching record is kept and the file is
\* left as it was.
C14_MismatchOriginal ==
    [][ (last'.op = "start" /\ loadToken(tokenFile).token # Null)
        => LET rec == loadToken(tokenFile).token[1] IN
           IF StampOf(rec) = createValidationContext(config'.clientId,
                                 config'.clientSecret, config'.region)
           THEN tokenFile' = tokenFile /\ tokenData' = Some(rec)
           ELSE tokenFile' = MissingFile /\ ~ hasToken(tokenData') ]_vars

\* C15: for a persisted record that matches the context and whose
\* expiresAt is in the past, isTokenValid() is false and every
\* getAuthStatus() reports Expired, the first one after start included.
C15_ExpiredOriginal ==
    [][ (last'.op = "getAuthStatus" /\ tokenData # Null
            /\ loadToken(tokenFile).token = tokenData
            /\ StampOf(tokenData[1]) = Context
            /\ tokenData[1].expires_at < Now)
        => /\ ~ isTokenValid(tokenData, Now)
           /\ last'.state = EXPIRED ]_vars

C17_StateAfterGet ==
    [][ last'.op = "getValidAccessToken"
        => IF last'.ok
           THEN stateManager'.currentState = AUTHORIZED
           ELSE /\ stateManager'.currentState =
                      (IF hasToken(tokenData') THEN EXPIRED ELSE NOT_AUTHORIZED)
                /\ last'.error # ""
                /\ last'.error =
                      getValidToken(tokenData, tokenFile, config, Now,
                                    FALSE, BufferSeconds).error ]_vars

\* a success that corrected Pending to Authorized
C17_Witness ==
    /\ last.op = "getValidAccessToken"
    /\ last.ok
    /\ last.state = PENDING
    /\ stateManager.currentState = AUTHORIZED

\* C18: getAuthStatus() returns an auth_url only when the state it
\* reports is Pending.
C18_UrlOnlyPending ==
    last.op = "getAuthStatus"
    => /\ last.url # Null => last.state = PENDING
       /\ last.state \in {NOT_AUTHORIZED, AUTHORIZED, EXPIRED, ERROR} => last.url = Null

\* a Pending that timed out into Error on this read: the URL is still
\* stored and is not returned
C18_Witness ==
    /\ last.op = "getAuthStatus"
    /\ last.state = ERROR
    /\ stateManager.lastError = "Authorization timeout (exceeded 5 minutes)"
    /\ oauth.currentAuthUrl # Null
    /\ last.url = Null

\* C19: when the state is Pending and more than the timeout has elapsed
\* since the flow started, getState() and isPending() answer Error / false,
\* and getAuthStatus() reports Error and leaves the state Error, whether
\* or not the timeout of the Callback Server has fired; up to the timeout
\* a read leaves Pending alone.
C19_NoStalePending ==
    [][ stateManager.currentState = PENDING
        => IF Now - stateManager.authStartTime > AuthTimeoutMs
           THEN /\ getState(stateManager, Now).currentState = ERROR
                /\ ~ isPending(stateManager, Now)
                /\ last'.op \in {"getAuthStatus", "getAuthorizationUrl"}
                    => stateManager'.currentState # PENDING \/ fresh' # fresh
                /\ last'.op = "getAuthStatus"
                    => last'.state = ERROR /\ stateManager'.currentState = ERROR
           ELSE /\ getState(stateManager, Now) = stateManager
                /\ last'.op = "getAuthStatus" => last'.state = PENDING ]_vars

\* the read turned a stale Pending into Error while the timeout of the
\* Callback Server is still armed
C19_Witness ==
    /\ last.op = "getAuthStatus"
    /\ last.state = ERROR
    /\ stateManager.lastError = "Authorization timeout (exceeded 5 minutes)"
    /\ \E s \in FlowIds : servers[s].timeoutHandle # 0 /\ Now > servers[s].timeoutHandle

\* C20: the first getAuthStatus() of a process started without a token
\* file reports NotAuthorized with authorized = false.
C20_FreshStatus ==
    [][ (last.op = "start" /\ tokenFile = MissingFile /\ last'.op = "getAuthStatus")
        => /\ last'.state = NOT_AUTHORIZED
           /\ ~ last'.ok ]_vars

C20_Witness ==
    /\ last.op = "getAuthStatus"
    /\ last.state = NOT_AUTHORIZED
    /\ ~ last.ok
    /\ tokenFile = MissingFile
    /\ tokenData = Null
    /\ clock = [small |-> 0, big |-> 0]
    /\ edits = 0

\* C21: getValidAccessToken() on an expired record fails with
\* TokenExpired, sends no request to the token endpoint and leaves the
\* persisted record as it is.
C21_NoRenewalOriginal ==
    [][ (last'.op = "getValidAccessToken" /\ tokenData # Null
            /\ Now >= tokenData[1].expires_at - BufferSeconds * 1000)
        => /\ ~ last'.ok
           /\ last'.error = "TokenExpired"
           /\ last'.sid = 0
           /\ tokenFile' = tokenFile ]_vars

\* C21 (amended): getValidAccessToken() on an expired record without a
\* refresh token fails with TokenExpired, sends no request and leaves the
\* record and the file as they are; on an expired record with a refresh
\* token it sends a refresh-token grant, and either fails with the refresh
\* error leaving record and file alone, or replaces the record and saves it.
C21_NoSilentRenewal ==
    [][ (last'.op = "getValidAccessToken" /\ tokenData # Null
            /\ Now >= tokenData[1].expires_at - BufferSeconds * 1000)
        => IF tokenData[1].refresh_token = ""
           THEN /\ ~ last'.ok
                /\ last'.error = "TokenExpired"
                /\ last'.sid = 0
                /\ tokenFile' = tokenFile
                /\ tokenData' = tokenData
           ELSE \/ /\ ~ last'.ok
                   /\ last'.error = "RefreshFailed"
                   /\ tokenFile' = tokenFile
                   /\ tokenData' = tokenData
                \/ /\ last'.ok
                   /\ last'.sid = 1
                   /\ tokenData' # Null
                   /\ tokenFile' = saveToken(tokenData'[1]) ]_vars

\* a record that expired long ago and has no refresh token: TokenExpired,
\* the file still holding it
C21_Witness ==
    /\ last.op = "getValidAccessToken"
    /\ last.error = "TokenExpired"
    /\ tokenData # Null
    /\ tokenData[1].refresh_token = ""
    /\ tokenData[1].expires_at < Now
    /\ loadToken(tokenFile).token = tokenData

C25_StampedOnExchange ==
    (last.op = "exchange" /\ last.ok)
    => LET rec == loadToken(tokenFile).token IN
       /\ rec # Null
       /\ rec = tokenData
       /\ rec[1].clientId = config.clientId
       /\ rec[1].clientSecretHash = sha256(config.clientSecret)
       /\ rec[1].region = config.region
       /\ validateTokenCredentials(rec[1], config.clientId, config.clientSecret)
       /\ TokenManagerNew(tokenFile, config.clientId, config.clientSecret)
            = [tokenData |-> rec, file |-> tokenFile]

\* a record persisted by a process of region international
C25_Witness ==
    /\ last.op = "exchange"
    /\ last.ok
    /\ config.region = "international"
    /\ tokenData # Null
    /\ tokenData[1].region = "international"
    /\ tokenData[1].access_token = last.value

\* C26: while a flow is pending and its callback awaited, a callback whose
\* state differs from the state of the pending request is not accepted:
\* the listener that received it is closed, the authorization state is
\* Error with the CSRF (or missing-parameter) message, and the pending
\* flow is over with its listener closed, so that no later callback can be
\* accepted for it.
C26_MismatchAbortsOriginal ==
    [][ (last'.op = "callback" /\ last'.error = ""
            /\ stateManager.currentState = PENDING
            /\ ~ isAuthTimeout(stateManager, Now)
            /\ oauth.currentState # 0
            /\ flows[oauth.currentState].pc = "waiting"
            /\ last'.sid # 0
            /\ last'.sid # oauth.currentState)
        => /\ ~ last'.ok
           /\ \A s \in Listening : servers'[s].server = "closed"
           /\ stateManager'.currentState = ERROR
           /\ stateManager'.lastError \in
                {"CSRF validation failed: state mismatch",
                 "Missing code or state parameter"}
           /\ flows'[oauth.currentState].pc = "done"
           /\ servers'[oauth.currentState].server = "closed" ]_vars

\* C27: whenever getAuthStatus() reports authorized = true, the token file
\* holds at that moment a record that matches the current validation
\* context and is not expired with respect to the buffer.
C27_AuthorizedMeansTokenOriginal ==
    (last.op = "getAuthStatus" /\ last.ok)
    => LET rec == loadToken(tokenFile).token IN
       /\ rec # Null
       /\ StampOf(rec[1]) = Context
       /\ ~ (Now >= rec[1].expires_at - BufferSeconds * 1000)

\* C28: while batchExecute runs, at most maxConcurrent executor calls are
\* in flight; the calls in flight belong to one chunk of maxConcurrent
\* consecutive positions, and every item of the chunks before it has
\* settled and is in the results.
C28_ConcurrencyCeiling ==
    batch.pc = "running"
    => /\ Cardinality(batch.inflight) <= batch.maxConcurrent
       /\ \A k \in batch.inflight :
            /\ k > batch.i
            /\ k <= batch.i + batch.maxConcurrent
       /\ batch.i % batch.maxConcurrent = 0
       /\ Len(batch.results) = batch.i
       /\ \A k \in 1 .. batch.i : batch.results[k].index = k - 1

\* the second chunk of a call with the default limit is in flight
C28_Witness ==
    /\ batch.pc = "running"
    /\ batch.maxConcurrent = MAX_CONCURRENT
    /\ batch.i = MAX_CONCURRENT
    /\ batch.inflight # {}
    /\ Len(batch.results) = MAX_CONCURRENT

\* C29: when batchExecute returns there is exactly one result per item, in
\* input order, with index = position and input = the item; the result of
\* an item is success = false with the executor's message exactly when its
\* executor rejected; and the call never ends in another way than by
\* returning the results.
C29_ResultPerItem ==
    /\ batch.pc \in {"idle", "running", "returned"}
    /\ batch.pc = "returned"
        => /\ Len(batch.results) = Len(batch.items)
           /\ batch.inflight = {}
           /\ \A k \in 1 .. Len(batch.items) :
                /\ batch.results[k].index = k - 1
                /\ batch.results[k].input = batch.items[k]
                /\ batch.results[k].success = (k \notin batch.failed)
                /\ IF k \in batch.failed
                   THEN batch.results[k].error = "failed:" \o batch.items[k]
                   ELSE batch.results[k].result = "done:" \o batch.items[k]

\* the first executor failed and settled last in its chunk; a later chunk
\* still ran
C29_Witness ==
    /\ batch.pc = "returned"
    /\ Len(batch.items) > MAX_CONCURRENT
    /\ batch.maxConcurrent = MAX_CONCURRENT
    /\ 1 \in batch.failed
    /\ batch.results[Len(batch.items)].success
    /\ last.op = "executorSettles"

\* C30: a Token Manager constructed on a file whose record lacks the
\* clientId or the secret hash deletes the file and has no token.
C30_LegacyDeleted ==
    [][ (last'.op = "start" /\ loadToken(tokenFile).token # Null
            /\ (loadToken(tokenFile).token[1].clientId = ""
                \/ loadToken(tokenFile).token[1].clientSecretHash = ""))
        => /\ tokenFile' = MissingFile
           /\ ~ hasToken(tokenData')
           /\ stateManager'.currentState = NOT_AUTHORIZED ]_vars

\* started on a record that has a clientId but no secret hash
C30_Witness ==
    /\ last.op = "start"
    /\ last.value = "tokNoHash"
    /\ tokenFile = MissingFile
    /\ tokenData = Null


\* C31 (as stated): the step that ends the background completion of one
\* flow (its state update and its final cleanup) leaves a newer outstanding
\* flow alone: that flow's Callback Server, the pending state value and
\* authorization URL, and the authorization state
C31_FlowScopedOriginal ==
    [][ \A s \in FlowIds :
          ( /\ flows[s].pc \in {"waiting", "exchanging"}
            /\ flows'[s].pc = "done"
            /\ oauth.currentState # 0
            /\ oauth.currentState # s )
          => ( /\ oauth' = oauth
               /\ servers'[oauth.currentState] = servers[oauth.currentState]
               /\ stateManager' = stateManager ) ]_vars

\* C32 (as stated): a token exchange that returns after revokeAuthorization()
\* returned stores no token and does not set the state to Authorized
C32_RevokeIsFinalOriginal ==
    [][ ( /\ last.op = "revokeAuthorization"
          /\ last'.op = "exchange" )
        => ( /\ ~ hasToken(tokenData')
             /\ tokenFile' = tokenFile
             /\ stateManager'.currentState # AUTHORIZED ) ]_vars

\* C33 (as stated): in every state of the OAuth Manager the authorization
\* state is Pending exactly when callbackServer, currentState and
\* currentAuthUrl are all set
C33_PendingIffOutstandingOriginal ==
    up => ( stateManager.currentState = PENDING
            <=> ( /\ oauth.callbackServer # 0
                  /\ oauth.currentState # 0
                  /\ oauth.currentAuthUrl # Null ) )

\* C34 (as stated): after an authorization flow completed in the running
\* process and stored a valid token, the next request through the HTTP
\* client carries that token and does not fail for want of a token
C34_NextRequestOriginal ==
    [][ ( /\ last.op = "exchange"
          /\ last.ok
          /\ isTokenValid(tokenData, Now)
          /\ last'.op = "httpRequest" )
        => ( /\ last'.value = last.value
             /\ last'.error # "Authentication failed" ) ]_vars

\* C35: a step that ends a flow in failure (its callback wait was rejected,
\* or its token exchange failed) leaves the held and the persisted token
\* record unchanged, and a token that was valid before it is still what
\* getValidAccessToken() returns after it
C35_FailureKeepsToken ==
    [][ \A s \in FlowIds :
          ( /\ flows[s].pc \in {"waiting", "exchanging"}
            /\ flows'[s].pc = "done"
            /\ ~ (last'.op = "exchange" /\ last'.ok) )
          => ( /\ tokenData' = tokenData
               /\ tokenFile' = tokenFile
               /\ isTokenValid(tokenData, Now)
                    => LET r == getValidToken(tokenData', tokenFile', config', Now,
                                              TRUE, BufferSeconds)
                       IN  /\ r.ok
                           /\ ~ r.refreshed
                           /\ r.value = tokenData[1].access_token ) ]_vars

\* a re-authorization attempt of a process that holds a valid token has
\* just failed in the token exchange, and the token is still held and on disk
C35_Witness ==
    /\ last.op = "exchange"
    /\ ~ last.ok
    /\ flows[last.sid].pc = "done"
    /\ stateManager.currentState = ERROR
    /\ tokenData # Null
    /\ isTokenValid(tokenData, Now)
    /\ tokenData[1].access_token = "tokOld"
    /\ loadToken(tokenFile).token = tokenData

\* C36: a request to /callback that carries an error parameter closes the
\* listener that serves it and, if the wait is still pending, rejects it
\* with "Authorization failed: <error>", whatever its code and state
\* parameters are: the flow ends and the state becomes Error with that
\* message
C36_ErrorFirst ==
    [][ \A s \in FlowIds :
          ( /\ s \in Listening
            /\ last'.op = "callback"
            /\ last'.error # "" )
          => ( /\ servers'[s].server = "closed"
               /\ servers'[s].promise # "pending"
               /\ servers[s].promise = "pending"
                    => /\ servers'[s].promise = "rejected"
                       /\ flows'[s].pc = "done"
                       /\ stateManager' =
                            setError(stateManager,
                                     "Authorization failed: " \o last'.error) ) ]_vars

\* the only flow was ended by a callback that carried error=access_denied
\* together with the matching state
C36_Witness ==
    /\ fresh = 1
    /\ last.op = "callback"
    /\ last.error = "access_denied"
    /\ last.sid = 1
    /\ servers[1].server = "closed"
    /\ servers[1].promise = "rejected"
    /\ flows[1].pc = "done"
    /\ stateManager.currentState = ERROR
    /\ stateManager.lastError = "Authorization failed: access_denied"

\* C37: a flow whose callback was accepted performs its token exchange once:
\* it goes from waiting to exchanging to done and never back, only the
\* return of its exchange ends the exchange and stores its token, and a
\* further callback delivered to its listener changes neither the flow nor
\* the token
C37_OneExchange ==
    [][ \A s \in FlowIds :
          /\ flows[s].pc = "done" => flows'[s].pc = "done"
          /\ flows[s].pc = "exchanging" => flows'[s].pc \in {"exchanging", "done"}
          /\ (flows[s].pc = "exchanging" /\ flows'[s].pc = "done")
                => (last'.op = "exchange" /\ last'.sid = s)
          /\ (flows[s].pc # "exchanging" /\ flows'[s].pc = "exchanging")
                => (flows[s].pc = "waiting" /\ last'.op = "callback" /\ last'.ok)
          /\ ( /\ tokenData' # tokenData
               /\ tokenData' # Null
               /\ tokenData'[1].access_token = IssuedToken(s) )
                => (last'.op = "exchange" /\ last'.sid = s /\ flows[s].pc = "exchanging")
          /\ (last'.op = "callback" /\ flows[s].pc # "waiting")
                => ( /\ flows'[s] = flows[s]
                     /\ tokenData' = tokenData
                     /\ tokenFile' = tokenFile ) ]_vars

\* the accepted callback was delivered a second time while the listener
\* was still open and the exchange in flight
C37_Witness ==
    /\ last.op = "callback"
    /\ last.value = "correct"
    /\ ~ last.ok
    /\ last.sid \in FlowIds
    /\ flows[last.sid].pc = "exchanging"
    /\ servers[last.sid].server = "listening"
    /\ servers[last.sid].settled = 1

============================================================================
